---- MODULE Spec2Model ----
(***************************************************************************)
(* Ticket lifecycle of the donation website: ProcessDonation writes a      *)
(* pending record, handle_stripe_webhook completes it (verification id,    *)
(* creation and expiration time, redeemed = False) and validate_ticket     *)
(* evaluates and redeems it with a conditional write.  Every Lambda        *)
(* invocation is stateless; all shared state is the two DynamoDB tables.   *)
(* Time is the UTC epoch second, as in the handlers.                       *)
(***************************************************************************)
EXTENDS Integers, Sequences, FiniteSets, TLC

VARIABLES
    clock,        \* current UTC epoch second (datetime.now(timezone.utc))
    records,      \* DonationRecords table: donationId -> item (attribute -> value)
    priceConfig,  \* EventPriceConfig table: the item of 'current_event_price', or << >>
    inv,          \* validate_ticket invocations: locals of each running handler
    last,         \* what the most recent invocation returned (and whether it mailed)
    completions,  \* number of completion writes made by the webhook so far
    redemptions,  \* history: donationId -> number of 'redeemed' responses returned
    calc          \* input and output of a pure computation (SpecEvaluate, SpecExpiration)

vars == <<clock, records, priceConfig, inv, last, completions,
          redemptions, calc>>

-----------------------------------------------------------------------------
(* Bounds of the model *)

MaxRecords == 2
MaxValidators == 2
MaxCompletions == 2
MaxTicks == 1
MaxRacers == 3
MaxDays == 2
MaxSlack == 1

-----------------------------------------------------------------------------
(* Program constants *)

SecondsPerDay == 24 * 60 * 60
\* validate_ticket: two_hour_window_end_time = creation + (2 * 60 * 60)
TwoHourWindow == 2 * 60 * 60
\* handle_stripe_webhook: time(5, 0)
ExpirationTimeOfDay == 5 * 60 * 60
\* ProcessDonation: donation_amount < 100
MinAmount == 100
\* Python's None, for item.get(attr) of an absent attribute
None == -1

\* The run starts at 23:00:00 UTC on day 0.
StartOfRun == 23 * 60 * 60

NoItem == << >>
NoResp == << >>

\* generate_short_id: random.choices over the alphabet, with no check against
\* the codes in use; two of its possible draws.
Codes == {"A2B3C4D", "E5F6G7H"}
DonationIds == 1 .. MaxRecords

-----------------------------------------------------------------------------
(* DynamoDB items: functions from the attributes present to their values *)

\* item.get(attr, default)
Get(item, attr, default) == IF attr \in DOMAIN item THEN item[attr] ELSE default

\* UpdateExpression "SET a = :a, ...": the named attributes are written, the
\* others are kept.
SetAttrs(item, upd) ==
    [a \in (DOMAIN item) \cup (DOMAIN upd) |->
        IF a \in DOMAIN upd THEN upd[a] ELSE item[a]]

\* update_item on a key: an item that does not exist is created with its key.
ItemAt(table, donation_id) ==
    IF donation_id \in DOMAIN table THEN table[donation_id]
    ELSE [donationId |-> donation_id]

PutItem(table, donation_id, item) ==
    [d \in (DOMAIN table) \cup {donation_id} |->
        IF d = donation_id THEN item ELSE table[d]]

\* query on verificationId-index / checkoutSessionId-index
ItemsByVerificationId(table, verification_id) ==
    {d \in DOMAIN table : Get(table[d], "verificationId", "None") = verification_id}

ItemsBySessionId(table, session_id) ==
    {d \in DOMAIN table : Get(table[d], "checkoutSessionId", None) = session_id}

-----------------------------------------------------------------------------
(* Pure computations *)

TwentyFourHoursLater(now_utc) == now_utc + SecondsPerDay

FiveAmSameDay(now_utc) ==
    (now_utc \div SecondsPerDay) * SecondsPerDay + ExpirationTimeOfDay

TwoCalendarDaysLater(now_utc) ==
    ((now_utc + 2 * SecondsPerDay) \div SecondsPerDay) * SecondsPerDay
        + ExpirationTimeOfDay

\* handle_stripe_webhook: tomorrow_utc = now_utc + timedelta(days=1);
\* datetime.combine(tomorrow_utc.date(), time(5, 0), tzinfo=utc).timestamp()
ExpirationTimestamp(now_utc) ==
    LET tomorrow_utc == now_utc + SecondsPerDay
        date == tomorrow_utc \div SecondsPerDay
    IN  date * SecondsPerDay + ExpirationTimeOfDay

ReasonValid == "Ticket is valid."
ReasonNotCompleted == "Ticket status is not 'completed'. Payment might be pending or failed."
ReasonRedeemedAt == "Ticket has already been redeemed at <redeemedTime>."
ReasonRedeemed == "Ticket has already been redeemed."
ReasonExpired == "Ticket has expired (past 5 AM UTC next day)."
ReasonWindow == "Ticket is no longer valid (exceeded 2-hour validation window from purchase)."
ReasonRedeemedNow == "Ticket is valid and has been redeemed."
ReasonConcurrent == "Ticket has already been redeemed by another process."
ReasonInternal == "Internal error during ticket redemption."

EvaluateWindowBeforeExpiry(item, current_time_utc) ==
    LET status == Get(item, "status", "None")
        two_hour_window_end_time == Get(item, "creationTime", 0) + TwoHourWindow
    IN  IF status # "completed"
          THEN [is_valid |-> FALSE, reason |-> ReasonNotCompleted]
        ELSE IF Get(item, "redeemed", FALSE)
          THEN [is_valid |-> FALSE,
                reason |-> IF Get(item, "redeemedTime", None) \notin {None, 0}
                             THEN ReasonRedeemedAt ELSE ReasonRedeemed]
        ELSE IF current_time_utc > two_hour_window_end_time
          THEN [is_valid |-> FALSE, reason |-> ReasonWindow]
        ELSE IF current_time_utc > Get(item, "expirationTime", 0)
          THEN [is_valid |-> FALSE, reason |-> ReasonExpired]
        ELSE [is_valid |-> TRUE, reason |-> ReasonValid]

EvaluateUnlessInProgress(item, current_time_utc) ==
    LET status == Get(item, "status", "None")
        two_hour_window_end_time == Get(item, "creationTime", 0) + TwoHourWindow
    IN  IF status # "completed"
          THEN [is_valid |-> FALSE, reason |-> ReasonNotCompleted]
        ELSE IF Get(item, "redeemed", FALSE)
                  \/ \E q \in DOMAIN inv : inv[q].pc = "redeem" /\ inv[q].item = item
          THEN [is_valid |-> FALSE,
                reason |-> IF Get(item, "redeemedTime", None) \notin {None, 0}
                             THEN ReasonRedeemedAt ELSE ReasonRedeemed]
        ELSE IF current_time_utc > Get(item, "expirationTime", 0)
          THEN [is_valid |-> FALSE, reason |-> ReasonExpired]
        ELSE IF current_time_utc > two_hour_window_end_time
          THEN [is_valid |-> FALSE, reason |-> ReasonWindow]
        ELSE [is_valid |-> TRUE, reason |-> ReasonValid]

RedeemAnyStatus(item, current_time_utc) ==
    IF Get(item, "redeemed", FALSE)
      THEN [is_valid |-> FALSE, reason |-> ReasonRedeemed]
      ELSE [is_valid |-> TRUE, reason |-> ReasonValid]

EvaluateWindowInclusive(item, current_time_utc) ==
    LET status == Get(item, "status", "None")
        two_hour_window_end_time == Get(item, "creationTime", 0) + TwoHourWindow
    IN  IF status # "completed"
          THEN [is_valid |-> FALSE, reason |-> ReasonNotCompleted]
        ELSE IF Get(item, "redeemed", FALSE)
          THEN [is_valid |-> FALSE,
                reason |-> IF Get(item, "redeemedTime", None) \notin {None, 0}
                             THEN ReasonRedeemedAt ELSE ReasonRedeemed]
        ELSE IF current_time_utc > Get(item, "expirationTime", 0)
          THEN [is_valid |-> FALSE, reason |-> ReasonExpired]
        ELSE IF current_time_utc >= two_hour_window_end_time
          THEN [is_valid |-> FALSE, reason |-> ReasonWindow]
        ELSE [is_valid |-> TRUE, reason |-> ReasonValid]

\* validate_ticket, the validation rules: an if/elif chain, first match wins.
EvaluateTicket(item, current_time_utc) ==
    LET status == Get(item, "status", "None")
        is_redeemed_db == Get(item, "redeemed", FALSE)
        redeemed_timestamp == Get(item, "redeemedTime", None)
        expiration_time_utc_db == Get(item, "expirationTime", 0)
        creation_time_utc_db == Get(item, "creationTime", 0)
        two_hour_window_end_time == creation_time_utc_db + TwoHourWindow
    IN  IF status # "completed"
          THEN [is_valid |-> FALSE, reason |-> ReasonNotCompleted]
        ELSE IF is_redeemed_db
          THEN [is_valid |-> FALSE,
                reason |-> IF redeemed_timestamp \notin {None, 0}
                             THEN ReasonRedeemedAt ELSE ReasonRedeemed]
        ELSE IF current_time_utc > expiration_time_utc_db
          THEN [is_valid |-> FALSE, reason |-> ReasonExpired]
        ELSE IF current_time_utc > two_hour_window_end_time
          THEN [is_valid |-> FALSE, reason |-> ReasonWindow]
        ELSE [is_valid |-> TRUE, reason |-> ReasonValid]

NoCondition(item) == TRUE

ConditionOnStatus(item) == Get(item, "status", "None") = "completed"

\* validate_ticket: ConditionExpression
\* "attribute_not_exists(redeemed) OR redeemed = :false_val"
RedeemCondition(item) ==
    "redeemed" \notin DOMAIN item \/ item["redeemed"] = FALSE

-----------------------------------------------------------------------------
(* Initial state: empty tables, no invocation running *)

IdleInv == [pc |-> "idle", verification_id |-> "None", item |-> NoItem,
            current_time_utc |-> None]

DoneInv == [IdleInv EXCEPT !.pc = "done"]

InitTables ==
    /\ clock = StartOfRun
    /\ records = << >>
    /\ priceConfig = NoItem
    /\ inv = [p \in 1 .. MaxValidators |-> IdleInv]
    /\ last = NoResp
    /\ completions = 0
    /\ redemptions = [d \in DonationIds |-> 0]

Init == InitTables /\ calc = << >>

\* What a handler returns: the status code and the fields of the body.
Response(handler, status_code, body) ==
    SetAttrs([handler |-> handler, statusCode |-> status_code], body)

-----------------------------------------------------------------------------
(* Time passes, by more than the redemption window at a time *)

TickStep == TwoHourWindow + 1

Tick ==
    /\ clock + TickStep <= StartOfRun + MaxTicks * TickStep
    /\ clock' = clock + TickStep
    /\ UNCHANGED <<records, priceConfig, inv, last, completions,
                   redemptions, calc>>

-----------------------------------------------------------------------------
(* ProcessDonation.lambda_handler *)

Emails == {"buyer@example.org"}
Amounts == {None, 50, 100}

\* uuid.uuid4() and the provider's session id: fresh each time
FreshIds == DonationIds \ DOMAIN records

\* item_to_save.  Its 'timestamp' attribute is read by no handler and is left out.
PendingItem(donation_id, session_id, donation_amount, user_email, price_config) ==
    LET item_to_save ==
            [donationId |-> donation_id, checkoutSessionId |-> session_id,
             amount |-> donation_amount, currency |-> "eur", status |-> "pending",
             payerEmail |-> user_email]
    IN  IF DOMAIN price_config # {}
          THEN SetAttrs(item_to_save,
                        [eventName |-> Get(price_config, "eventName", "Event Ticket")])
          ELSE item_to_save

\* stripe.checkout.Session.create: the session the invocation created at the
\* payment provider, if it created one
NoSession == [created |-> FALSE]
Session(session_id, unit_amount, customer_email) ==
    [created |-> TRUE, id |-> session_id, unit_amount |-> unit_amount,
     customer_email |-> customer_email]

\* What ProcessDonation returns, with the session it created
DonationResponse(status_code, message, stripe_session) ==
    Response("ProcessDonation", status_code,
             [message |-> message, stripe_session |-> stripe_session])

\* price_table.get_item(...).get('Item'), None when get_item raises
ReadPriceConfig(price_read_ok, price_config) ==
    IF price_read_ok THEN price_config ELSE NoItem

AmountNotChecked(donation_amount) == donation_amount # None

\* the amount passes "isinstance(donation_amount, int) and donation_amount >= 100"
AmountAccepted(donation_amount) ==
    donation_amount # None /\ donation_amount >= MinAmount

ProcessDonation(user_email, amount, price_read_ok, stripe_ok, put_ok) ==
    LET price_config == ReadPriceConfig(price_read_ok, priceConfig)
        donation_amount == IF DOMAIN price_config # {}
                             THEN price_config["priceInCents"] ELSE amount
        donation_id == CHOOSE d \in FreshIds : \A e \in FreshIds : d <= e
    IN  /\ FreshIds # {}
        /\ IF ~AmountAccepted(donation_amount)
             THEN /\ last' = DonationResponse(500,
                        "Internal server error: Invalid amount. Must be at least 1 EUR.",
                        NoSession)
                  /\ UNCHANGED records
           ELSE IF user_email = ""
             THEN /\ last' = DonationResponse(500,
                        "Internal server error: Email is required.", NoSession)
                  /\ UNCHANGED records
           ELSE IF ~stripe_ok
             THEN /\ last' = DonationResponse(500, "Internal server error: stripe",
                                              NoSession)
                  /\ UNCHANGED records
           ELSE IF ~put_ok
             THEN /\ last' = DonationResponse(500, "Internal server error: put_item",
                                Session(donation_id, donation_amount, user_email))
                  /\ UNCHANGED records
           ELSE /\ records' = PutItem(records, donation_id,
                      PendingItem(donation_id, donation_id, donation_amount,
                                  user_email, price_config))
                /\ last' = DonationResponse(200, "session_url",
                                Session(donation_id, donation_amount, user_email))
        /\ UNCHANGED <<clock, priceConfig, inv, completions,
                       redemptions, calc>>

-----------------------------------------------------------------------------
(* set_event_price, unset-price-event, get_event_price *)

EventNames == {"Gala"}
Prices == {None, 0, 50, 200}

\* Item of set_event_price.  Its 'lastUpdated' attribute (the invocation's
\* remaining time) is read by no handler and is left out.
PriceItem(price_in_cents, event_name) ==
    [configId |-> "current_event_price", priceInCents |-> price_in_cents,
     eventName |-> event_name]

PriceResponse(handler, status_code, message) ==
    Response(handler, status_code, [message |-> message])

SetEventPrice(event_name, price_raw, put_ok) ==
    LET failed(m) == PriceResponse("set_event_price", 500, m)
    IN  /\ IF event_name = ""
             THEN /\ last' = failed("An internal error occurred: Event name is missing or invalid.")
                  /\ UNCHANGED priceConfig
           ELSE IF price_raw = None
             THEN /\ last' = failed("An internal error occurred: Price is missing from the request body.")
                  /\ UNCHANGED priceConfig
           ELSE IF price_raw <= 0
             THEN /\ last' = failed("An internal error occurred: Price must be a positive number.")
                  /\ UNCHANGED priceConfig
           ELSE IF ~put_ok
             THEN /\ last' = failed("An internal error occurred: put_item")
                  /\ UNCHANGED priceConfig
           ELSE /\ priceConfig' = PriceItem(price_raw, event_name)
                /\ last' = Response("set_event_price", 200,
                                    [message |-> "Price set successfully",
                                     price |-> price_raw, eventName |-> event_name])
        /\ UNCHANGED <<clock, records, inv, completions, redemptions, calc>>

\* delete_item: no error when there is no item
UnsetEventPrice(delete_ok) ==
    /\ IF delete_ok
         THEN /\ priceConfig' = NoItem
              /\ last' = PriceResponse("unset-price-event", 200,
                                        "Fixed price successfully removed.")
         ELSE /\ UNCHANGED priceConfig
              /\ last' = PriceResponse("unset-price-event", 500,
                    "An internal error occurred while removing the price.")
    /\ UNCHANGED <<clock, records, inv, completions, redemptions, calc>>

GetEventPrice(get_ok) ==
    /\ last' = IF ~get_ok
                 THEN PriceResponse("get_event_price", 500,
                                    "An internal error occurred.")
               ELSE IF DOMAIN priceConfig = {}
                 THEN PriceResponse("get_event_price", 404,
                                    "No fixed price has been set.")
               ELSE Response("get_event_price", 200, priceConfig)
    /\ UNCHANGED <<clock, records, priceConfig, inv, completions,
                   redemptions, calc>>

-----------------------------------------------------------------------------
(* getDonationDetails.lambda_handler *)

\* base_response_data['status'] of a record that was found with a status the
\* handler answers 200 for
ReportedStatus(status) ==
    IF status \in {"completed", "pending"} THEN "succeeded" ELSE status

DetailsResponse(status_code, body) ==
    Response("getDonationDetails", status_code, body)

\* session_id None: no sessionId in the query string
GetDonationDetails(session_id, db_ok) ==
    LET ids == ItemsBySessionId(records, session_id)
    IN  /\ IF session_id = None
             THEN last' = DetailsResponse(400, [error |-> "sessionId is required"])
           ELSE IF ~db_ok
             THEN last' = DetailsResponse(500, [error |-> "Internal server error"])
           ELSE IF ids = {}
             THEN last' = DetailsResponse(404,
                            [error |-> "Donation record not yet found. Retrying...",
                             status |-> "not_found"])
           ELSE \E donation_id \in ids :
                  LET item == records[donation_id]
                      status == Get(item, "status", "None")
                  IN  IF status \in {"completed", "pending"}
                        THEN last' = DetailsResponse(200,
                               [verificationId |-> Get(item, "verificationId", "None"),
                                amount |-> Get(item, "amount", None),
                                currency |-> Get(item, "currency", "None"),
                                payerEmail |-> Get(item, "payerEmail", "None"),
                                creationTime |-> Get(item, "creationTime", None),
                                expirationTime |-> Get(item, "expirationTime", None),
                                redeemed |-> Get(item, "redeemed", FALSE),
                                redeemedTime |-> Get(item, "redeemedTime", None),
                                donationId |-> Get(item, "donationId", None),
                                status |-> ReportedStatus(status)])
                        ELSE last' = DetailsResponse(409,
                               [error |-> "Donation has an unexpected status",
                                status |-> status])
        /\ UNCHANGED <<clock, records, priceConfig, inv, completions,
                       redemptions, calc>>

-----------------------------------------------------------------------------
(* handle_stripe_webhook.lambda_handler *)

CompletionWithoutStatus(verification_id, now_utc, customer_email) ==
    [verificationId |-> verification_id,
     expirationTime |-> ExpirationTimestamp(now_utc),
     redeemed |-> FALSE, creationTime |-> now_utc,
     payerEmail |-> customer_email, payerName |-> "N/A"]

CompletionWithAmountTotal(verification_id, now_utc, customer_email) ==
    [status |-> "completed", verificationId |-> verification_id,
     expirationTime |-> ExpirationTimestamp(now_utc),
     redeemed |-> FALSE, creationTime |-> now_utc,
     payerEmail |-> customer_email, payerName |-> "N/A",
     amount |-> MinAmount \div 100]

\* UpdateExpression of the completion write and its values
CompletionUpdate(verification_id, now_utc, customer_email) ==
    [status |-> "completed", verificationId |-> verification_id,
     expirationTime |-> ExpirationTimestamp(now_utc),
     redeemed |-> FALSE, creationTime |-> now_utc,
     payerEmail |-> customer_email, payerName |-> "N/A"]

\* mail: what became of send_verification_email in this invocation, "none" when
\* it was not called, else the verification id with whether SES accepted it.
NoMail == [called |-> FALSE]

Mail(verification_id, ses_ok) ==
    [called |-> TRUE, verification_id |-> verification_id, accepted |-> ses_ok]

WebhookResponse(status_code, status, message, mail) ==
    Response("handle_stripe_webhook", status_code,
             [status |-> status, message |-> message, mail |-> mail])

\* construct_event raises: the event is rejected before anything is read
WebhookBadSignature ==
    /\ last' = WebhookResponse(400, "None", "None", NoMail)
    /\ UNCHANGED <<clock, records, priceConfig, inv, completions,
                   redemptions, calc>>

\* a verified event of another type
WebhookOtherEvent ==
    /\ last' = WebhookResponse(200, "success", "None", NoMail)
    /\ UNCHANGED <<clock, records, priceConfig, inv, completions,
                   redemptions, calc>>

WebhookCompletedUpsert(session_id, verification_id, customer_email, db_ok, ses_ok) ==
    /\ db_ok
    /\ completions < MaxCompletions
    /\ completions' = completions + 1
    /\ records' = PutItem(records, session_id,
                          SetAttrs(ItemAt(records, session_id),
                                   CompletionUpdate(verification_id, clock,
                                                    customer_email)))
    /\ last' = WebhookResponse(200, "success", "None",
                               Mail(verification_id, ses_ok))
    /\ UNCHANGED <<clock, priceConfig, inv, redemptions, calc>>

WebhookCompletedMailFirst(session_id, verification_id, customer_email, db_ok, ses_ok) ==
    LET ids == ItemsBySessionId(records, session_id)
    IN  /\ IF ~db_ok \/ ids = {}
             THEN /\ last' = WebhookResponse(200, "error", "Internal server error",
                                              Mail(verification_id, ses_ok))
                  /\ UNCHANGED <<records, completions>>
           ELSE \E donation_id \in ids :
                  /\ completions < MaxCompletions
                  /\ completions' = completions + 1
                  /\ records' = PutItem(records, donation_id,
                        SetAttrs(ItemAt(records, donation_id),
                                 CompletionUpdate(verification_id, clock,
                                                  customer_email)))
                  /\ last' = WebhookResponse(200, "success", "None",
                                             Mail(verification_id, ses_ok))
        /\ UNCHANGED <<clock, priceConfig, inv, redemptions, calc>>

\* A verified checkout.session.completed event, for a session with a record or
\* (put_item failed, or the session is not of this shop) without one.  The
\* query result only supplies donationId, which never changes, so the query and
\* the unconditional update_item are one step.  verification_id is the draw of
\* generate_short_id; db_ok is whether the table answers; ses_ok is whether SES
\* accepts the mail (send_verification_email swallows its failure).
WebhookCompleted(session_id, verification_id, customer_email, db_ok, ses_ok) ==
    LET ids == ItemsBySessionId(records, session_id)
    IN  /\ IF ~db_ok
             THEN /\ last' = WebhookResponse(200, "error", "Internal server error",
                                              NoMail)
                  /\ UNCHANGED <<records, completions>>
           ELSE IF ids = {}
             THEN /\ last' = WebhookResponse(200, "error",
                                              "Donation record not found", NoMail)
                  /\ UNCHANGED <<records, completions>>
           ELSE \E donation_id \in ids :
                  /\ completions < MaxCompletions
                  /\ completions' = completions + 1
                  /\ records' = PutItem(records, donation_id,
                        SetAttrs(ItemAt(records, donation_id),
                                 CompletionUpdate(verification_id, clock,
                                                  customer_email)))
                  /\ last' = WebhookResponse(200, "success", "None",
                                             Mail(verification_id, ses_ok))
        /\ UNCHANGED <<clock, priceConfig, inv, redemptions, calc>>

-----------------------------------------------------------------------------
(* validate_ticket.lambda_handler: the query with the evaluation, and the   *)
(* conditional write, are separate steps of an invocation.                 *)

\* A request is served by a free invocation slot; among free slots a fresh one
\* is taken before a finished one, the lowest first.
Free(p) == inv[p].pc \in {"idle", "done"}

Before(q, p) ==
    \/ inv[q].pc = "idle" /\ inv[p].pc = "done"
    \/ inv[q].pc = inv[p].pc /\ q < p

MayArrive(p) == Free(p) /\ \A q \in DOMAIN inv : Free(q) => ~Before(q, p)

ValidateResponse(status_code, body) ==
    Response("validate_ticket", status_code, body)

\* response_data of a request that found its item
ResponseData(i, is_valid, reason, is_redeemed_db, redeemed_time_db, action_taken) ==
    [valid |-> is_valid, reason |-> reason,
     donationId |-> i.item["donationId"],
     verificationId |-> i.verification_id,
     status |-> Get(i.item, "status", "None"),
     payerEmail |-> Get(i.item, "payerEmail", "None"),
     amount |-> Get(i.item, "amount", None),
     currency |-> Get(i.item, "currency", "None"),
     creationTime |-> Get(i.item, "creationTime", 0),
     expirationTime |-> Get(i.item, "expirationTime", 0),
     currentTime |-> i.current_time_utc,
     redeemed |-> is_redeemed_db,
     redeemedTime |-> redeemed_time_db,
     actionTaken |-> action_taken]

InternalServerError ==
    ValidateResponse(500, [message |-> "Internal server error.", valid |-> FALSE,
                           reason |-> "Internal server error"])

OtherRecordKey(item) == (item["donationId"] % MaxRecords) + 1

\* Key={'donationId': donation_id} of the redeem write
RedeemKey(item) == item["donationId"]

RedeemUpdateAndStatus(redeem_timestamp) ==
    [redeemed |-> TRUE, redeemedTime |-> redeem_timestamp, status |-> "redeemed"]

\* UpdateExpression "SET redeemed = :r, redeemedTime = :rt" and its values
RedeemUpdate(redeem_timestamp) ==
    [redeemed |-> TRUE, redeemedTime |-> redeem_timestamp]

ConflictAsNone == "none"

\* action_taken of the ConditionalCheckFailedException handler
ConflictAction == "failed_redeem_concurrent"

ValidateMissingId(p) ==
    /\ MayArrive(p)
    /\ inv' = [inv EXCEPT ![p] = DoneInv]
    /\ last' = ValidateResponse(400, [message |-> "Verification ID is required.",
                                      valid |-> FALSE, reason |-> "Missing ID"])
    /\ UNCHANGED <<clock, records, priceConfig, completions,
                   redemptions, calc>>

\* The query on verificationId-index and the evaluation of the item it returns
\* against the clock, which the handler reads right after the query; db_ok is
\* whether the table answers.  Of several items with the code, items[0] is any.
ValidateQuery(p, verification_id, db_ok) ==
    LET ids == ItemsByVerificationId(records, verification_id)
    IN  /\ MayArrive(p)
        /\ IF ~db_ok
             THEN /\ last' = InternalServerError
                  /\ inv' = [inv EXCEPT ![p] = DoneInv]
           ELSE IF ids = {}
             THEN /\ last' = ValidateResponse(404,
                                [message |-> "Ticket not found.", valid |-> FALSE,
                                 reason |-> "Ticket not found"])
                  /\ inv' = [inv EXCEPT ![p] = DoneInv]
           ELSE \E donation_id \in ids :
                  LET i == [pc |-> "redeem", verification_id |-> verification_id,
                            item |-> records[donation_id],
                            current_time_utc |-> clock]
                      v == EvaluateTicket(i.item, clock)
                  IN  IF v.is_valid
                        THEN /\ inv' = [inv EXCEPT ![p] = i]
                             /\ UNCHANGED last
                        ELSE /\ inv' = [inv EXCEPT ![p] = DoneInv]
                             /\ last' = ValidateResponse(200,
                                   ResponseData(i, FALSE, v.reason,
                                        Get(i.item, "redeemed", FALSE),
                                        Get(i.item, "redeemedTime", None),
                                        "none"))
        /\ UNCHANGED <<clock, records, priceConfig, completions,
                       redemptions, calc>>

\* update_item with the ConditionExpression: one atomic conditional write
ValidateRedeem(p) ==
    LET i == inv[p]
        donation_id == RedeemKey(i.item)
        stored == ItemAt(records, donation_id)
        redeem_timestamp == clock
    IN  /\ i.pc = "redeem"
        /\ inv' = [inv EXCEPT ![p] = DoneInv]
        /\ IF RedeemCondition(stored)
             THEN /\ records' = PutItem(records, donation_id,
                        SetAttrs(stored, RedeemUpdate(redeem_timestamp)))
                  /\ redemptions' = [redemptions EXCEPT ![donation_id] = @ + 1]
                  /\ last' = ValidateResponse(200,
                        ResponseData(i, TRUE, ReasonRedeemedNow,
                                     TRUE, redeem_timestamp, "redeemed"))
             ELSE /\ UNCHANGED <<records, redemptions>>
                  /\ last' = ValidateResponse(200,
                        ResponseData(i, FALSE, ReasonConcurrent,
                                     Get(i.item, "redeemed", FALSE),
                                     Get(i.item, "redeemedTime", None),
                                     ConflictAction))
        /\ UNCHANGED <<clock, priceConfig, completions, calc>>

\* update_item raises a ClientError other than the conditional check failure:
\* re-raised from the handler of the inner try, caught by the outer one
ValidateRedeemClientError(p) ==
    /\ inv[p].pc = "redeem"
    /\ inv' = [inv EXCEPT ![p] = DoneInv]
    /\ last' = InternalServerError
    /\ UNCHANGED <<clock, records, priceConfig, completions,
                   redemptions, calc>>

\* update_item raises an exception that is not a ClientError
ValidateRedeemException(p) ==
    /\ inv[p].pc = "redeem"
    /\ inv' = [inv EXCEPT ![p] = DoneInv]
    /\ last' = ValidateResponse(200,
          ResponseData(inv[p], FALSE, ReasonInternal,
                       Get(inv[p].item, "redeemed", FALSE),
                       Get(inv[p].item, "redeemedTime", None),
                       "failed_redeem_general"))
    /\ UNCHANGED <<clock, records, priceConfig, completions,
                   redemptions, calc>>

-----------------------------------------------------------------------------
(* The ticket lifecycle: purchase, completion and validation, in any         *)
(* interleaving.  The price handlers reach a ticket only through the amount   *)
(* and event name of its pending record, which no later handler acts on;     *)
(* they are in SpecPurchase.                                                  *)

Next ==
    \/ Tick
    \/ \E user_email \in Emails \cup {""}, amount \in Amounts,
          price_read_ok, stripe_ok, put_ok \in BOOLEAN :
          ProcessDonation(user_email, amount, price_read_ok, stripe_ok, put_ok)
    \/ WebhookBadSignature
    \/ WebhookOtherEvent
    \/ \E session_id \in DonationIds, verification_id \in Codes,
          customer_email \in Emails, db_ok, ses_ok \in BOOLEAN :
          WebhookCompleted(session_id, verification_id, customer_email, db_ok, ses_ok)
    \/ \E p \in DOMAIN inv : ValidateMissingId(p)
    \/ \E p \in DOMAIN inv, verification_id \in Codes, db_ok \in BOOLEAN :
          ValidateQuery(p, verification_id, db_ok)
    \/ \E p \in DOMAIN inv : ValidateRedeem(p)
    \/ \E p \in DOMAIN inv : ValidateRedeemClientError(p)
    \/ \E p \in DOMAIN inv : ValidateRedeemException(p)

Spec == Init /\ [][Next]_vars

-----------------------------------------------------------------------------
(* The purchase side: the price configuration, purchases, completions and    *)
(* the details the success page asks for, in any interleaving.               *)

NextPurchase ==
    \/ \E event_name \in EventNames \cup {""}, price_raw \in Prices,
          put_ok \in BOOLEAN :
          SetEventPrice(event_name, price_raw, put_ok)
    \/ \E delete_ok \in BOOLEAN : UnsetEventPrice(delete_ok)
    \/ \E get_ok \in BOOLEAN : GetEventPrice(get_ok)
    \/ \E user_email \in Emails \cup {""}, amount \in Amounts,
          price_read_ok, stripe_ok, put_ok \in BOOLEAN :
          ProcessDonation(user_email, amount, price_read_ok, stripe_ok, put_ok)
    \/ \E session_id \in DonationIds, verification_id \in Codes,
          customer_email \in Emails, db_ok, ses_ok \in BOOLEAN :
          WebhookCompleted(session_id, verification_id, customer_email, db_ok, ses_ok)
    \/ \E session_id \in DonationIds \cup {None}, db_ok \in BOOLEAN :
          GetDonationDetails(session_id, db_ok)

SpecPurchase == Init /\ [][NextPurchase]_vars

-----------------------------------------------------------------------------
(* A race for one ticket: a record completed at StartOfRun, as ProcessDonation *)
(* and the webhook leave it, and 1 .. MaxRacers validation requests with its  *)
(* code, each made once, in any interleaving, on a store that answers.        *)

RaceCode == "A2B3C4D"
RaceId == CHOOSE d \in DonationIds : \A e \in DonationIds : d <= e

RaceRecord ==
    SetAttrs(PendingItem(RaceId, RaceId, MinAmount, "buyer@example.org", NoItem),
             CompletionUpdate(RaceCode, StartOfRun, "buyer@example.org"))

InitRace ==
    \E n \in 1 .. MaxRacers :
        /\ clock = StartOfRun
        /\ records = PutItem(<< >>, RaceId, RaceRecord)
        /\ priceConfig = NoItem
        /\ inv = [p \in 1 .. n |-> IdleInv]
        /\ last = WebhookResponse(200, "success", "None", Mail(RaceCode, TRUE))
        /\ completions = 1
        /\ redemptions = [d \in DonationIds |-> 0]
        /\ calc = << >>

NextRace ==
    \/ Tick
    \/ \E p \in DOMAIN inv : inv[p].pc = "idle" /\ ValidateQuery(p, RaceCode, TRUE)
    \/ \E p \in DOMAIN inv : ValidateRedeem(p)

SpecRace == InitRace /\ [][NextRace]_vars

-----------------------------------------------------------------------------
(* validate_ticket on any stored item that carries the requested code: the    *)
(* handler reads nothing but the item its query returns and the clock.        *)

StoredItems ==
    {SetAttrs(PendingItem(RaceId, RaceId, MinAmount, "buyer@example.org", NoItem),
              [a \in {"status", "verificationId", "creationTime"} \cup extra |->
                 CASE a = "status" -> status
                   [] a = "verificationId" -> RaceCode
                   [] a = "creationTime" -> StartOfRun
                   [] a = "expirationTime" -> ExpirationTimestamp(StartOfRun)
                   [] a = "redeemed" -> redeemed
                   [] a = "redeemedTime" -> StartOfRun]) :
        status \in {"pending", "completed", "failed"},
        redeemed \in BOOLEAN,
        extra \in SUBSET {"expirationTime", "redeemed", "redeemedTime"}}

InitValidate ==
    /\ clock = StartOfRun
    /\ \E item \in StoredItems : records = PutItem(<< >>, RaceId, item)
    /\ priceConfig = NoItem
    /\ inv = [p \in 1 .. MaxValidators |-> IdleInv]
    /\ last = NoResp
    /\ completions = 0
    /\ redemptions = [d \in DonationIds |-> 0]
    /\ calc = << >>

NextValidate ==
    \/ Tick
    \/ \E p \in DOMAIN inv : ValidateMissingId(p)
    \/ \E p \in DOMAIN inv, verification_id \in Codes, db_ok \in BOOLEAN :
          ValidateQuery(p, verification_id, db_ok)
    \/ \E p \in DOMAIN inv : ValidateRedeem(p)
    \/ \E p \in DOMAIN inv : ValidateRedeemClientError(p)
    \/ \E p \in DOMAIN inv : ValidateRedeemException(p)

SpecValidate == InitValidate /\ [][NextValidate]_vars

-----------------------------------------------------------------------------
(* The validation rules on any item and any time *)

WithAttr(item, present, attr, value) ==
    IF present THEN SetAttrs(item, [a \in {attr} |-> value]) ELSE item

Around(t) == {t + k : k \in (0 - MaxSlack) .. MaxSlack}

InitEvaluate ==
    /\ InitTables
    /\ \E status \in {"pending", "completed", "failed"},
          redeemed \in {"absent", "false", "true"},
          redeemedTime \in {None, 0, StartOfRun + 1},
          has_creation \in BOOLEAN,
          expiration \in {None, StartOfRun + 60 * 60, ExpirationTimestamp(StartOfRun),
                          ExpirationTimestamp(StartOfRun) + MaxDays * SecondsPerDay} :
          \E now \in {StartOfRun} \cup Around(StartOfRun + TwoHourWindow)
                      \cup Around(TwoHourWindow)
                      \cup (IF expiration = None THEN Around(1) ELSE Around(expiration)) :
            calc = [item |->
                      WithAttr(
                        WithAttr(
                          WithAttr(
                            WithAttr([donationId |-> 1, status |-> status],
                                     redeemed # "absent", "redeemed", redeemed = "true"),
                            redeemedTime # None, "redeemedTime", redeemedTime),
                          has_creation, "creationTime", StartOfRun),
                        expiration # None, "expirationTime", expiration),
                    current_time_utc |-> now,
                    verdict |-> << >>]

CalcEvaluate ==
    /\ DOMAIN calc.verdict = {}
    /\ calc' = [calc EXCEPT !.verdict = EvaluateTicket(calc.item, calc.current_time_utc)]
    /\ UNCHANGED <<clock, records, priceConfig, inv, last, completions, redemptions>>

SpecEvaluate == InitEvaluate /\ [][CalcEvaluate]_vars

-----------------------------------------------------------------------------
(* The expiration time of a completion at any second of the first days *)

InitExpiration ==
    /\ InitTables
    /\ \E now_utc \in 0 .. (MaxDays * SecondsPerDay - 1) :
          calc = [now_utc |-> now_utc, expiration_timestamp |-> None]

CalcExpiration ==
    /\ calc.expiration_timestamp = None
    /\ calc' = [calc EXCEPT !.expiration_timestamp = ExpirationTimestamp(calc.now_utc)]
    /\ UNCHANGED <<clock, records, priceConfig, inv, last, completions, redemptions>>

SpecExpiration == InitExpiration /\ [][CalcExpiration]_vars

-----------------------------------------------------------------------------
(* The expiration time of a completion at any minute of 2024-01-10 (UTC) *)

\* datetime(y, m, d, tzinfo=utc): days since 1970-01-01 of a civil date
DaysFromCivil(y, m, d) ==
    LET yy == IF m <= 2 THEN y - 1 ELSE y
        era == yy \div 400
        yoe == yy - era * 400
        mp == (m + 9) % 12
        doy == (153 * mp + 2) \div 5 + d - 1
        doe == yoe * 365 + yoe \div 4 - yoe \div 100 + doy
    IN  era * 146097 + doe - 719468

\* int(datetime(y, m, d, hh, mi, ss, tzinfo=utc).timestamp())
Timestamp(y, m, d, hh, mi, ss) ==
    DaysFromCivil(y, m, d) * SecondsPerDay + (hh * 60 + mi) * 60 + ss

InitCalendar ==
    /\ InitTables
    /\ \E hh \in 0 .. 23, mi \in 0 .. 59 :
          calc = [now_utc |-> Timestamp(2024, 1, 10, hh, mi, 0),
                  expiration_timestamp |-> None]

SpecCalendar == InitCalendar /\ [][CalcExpiration]_vars

-----------------------------------------------------------------------------
(* Claims *)

IsDonation(r) == DOMAIN r # {} /\ r["handler"] = "ProcessDonation"

IsDetails(r) == DOMAIN r # {} /\ r["handler"] = "getDonationDetails"

IsWebhook(r) == DOMAIN r # {} /\ r["handler"] = "handle_stripe_webhook"

IsVerdict(r) ==
    /\ DOMAIN r # {}
    /\ r["handler"] = "validate_ticket"
    /\ r["statusCode"] = 200

Redeemed(item) == Get(item, "redeemed", FALSE)

RaceDone == \A p \in DOMAIN inv : inv[p].pc = "done"

RaceInWindow == clock <= records[RaceId]["creationTime"] + TwoHourWindow

\* C1 (SpecRace): of the requests racing for one completed, unredeemed ticket
\* never more than one returns 'redeemed', and once all of them have returned
\* within the ticket's window exactly one has.
C1_ExactlyOneRedeemed ==
    /\ redemptions[RaceId] <= 1
    /\ RaceDone /\ RaceInWindow => redemptions[RaceId] = 1

C1_Witness ==
    /\ RaceDone /\ RaceInWindow
    /\ Cardinality(DOMAIN inv) >= 2
    /\ redemptions[RaceId] = 1
    /\ IsVerdict(last) /\ last["actionTaken"] = "failed_redeem_concurrent"

\* C2 (Spec): no record is redeemed more than once: at most one validation
\* request per record ever returns 'redeemed'.
C2_AtMostOneRedemption == \A d \in DonationIds : redemptions[d] <= 1

\* C3 (SpecRace), as claimed: a racing request that returns within the window
\* and is not the one that redeemed returns 'failed_redeem_concurrent'.
C3_LosersAllConcurrent ==
    IsVerdict(last) /\ last["actionTaken"] # "redeemed"
                    /\ last["currentTime"] <= last["creationTime"] + TwoHourWindow
        => last["actionTaken"] = "failed_redeem_concurrent"

\* C3 (SpecRace), amended: such a request returns valid = false, with
\* 'failed_redeem_concurrent' when the item it read was not yet redeemed and with
\* 'none' and the already-redeemed reason when the item it read was redeemed.
C3_LosersConflictOrAlreadyRedeemed ==
    IsVerdict(last) /\ last["actionTaken"] # "redeemed"
                    /\ last["currentTime"] <= last["creationTime"] + TwoHourWindow
        => /\ last["valid"] = FALSE
           /\ \/ /\ last["redeemed"] = FALSE
                 /\ last["actionTaken"] = "failed_redeem_concurrent"
                 /\ last["reason"] = ReasonConcurrent
              \/ /\ last["redeemed"] = TRUE
                 /\ last["actionTaken"] = "none"
                 /\ last["reason"] = ReasonRedeemedAt

C3_Witness ==
    /\ IsVerdict(last)
    /\ last["currentTime"] <= last["creationTime"] + TwoHourWindow
    /\ last["actionTaken"] = "none"
    /\ last["redeemed"] = TRUE
    /\ redemptions[RaceId] = 1

\* C4 (Spec): a record has a redeemedTime exactly when its redeemed flag is true.
C4_RedeemedTimeIffRedeemed ==
    \A d \in DOMAIN records :
        ("redeemedTime" \in DOMAIN records[d]) <=> Redeemed(records[d])

\* C5 (Spec): a redeemed record has status 'completed'.
C5_RedeemedImpliesCompleted ==
    \A d \in DOMAIN records :
        Redeemed(records[d]) => Get(records[d], "status", "None") = "completed"

C5_Witness ==
    \E d \in DOMAIN records :
        Redeemed(records[d]) /\ records[d]["status"] = "completed"

\* C6 (Spec): once a record has a verification id, no step changes it.
C6_CodeAssignedOnce ==
    [][\A d \in DOMAIN records :
          "verificationId" \in DOMAIN records[d]
              => records'[d]["verificationId"] = records[d]["verificationId"]]_vars

\* C7 (Spec): no two records carry the same verification id.
C7_CodesUnique ==
    \A d, e \in DOMAIN records :
        /\ d # e
        /\ "verificationId" \in DOMAIN records[d]
        /\ "verificationId" \in DOMAIN records[e]
        => records[d]["verificationId"] # records[e]["verificationId"]

\* C8 (Spec): a record has a verification id exactly when its status is
\* 'completed'.
C8_CodeIffCompleted ==
    \A d \in DOMAIN records :
        ("verificationId" \in DOMAIN records[d])
            <=> Get(records[d], "status", "None") = "completed"

C8_Witness ==
    /\ \E d \in DOMAIN records : records[d]["status"] = "completed"
    /\ \E d \in DOMAIN records : records[d]["status"] = "pending"

\* C9 (SpecEvaluate): the verdict is that of the first rule that fails, in the
\* order status, redeemed, expirationTime, two-hour window; valid when none does.
C9_RuleChain ==
    DOMAIN calc.verdict # {} =>
        LET item == calc.item
            now == calc.current_time_utc
            v == calc.verdict
            completed == Get(item, "status", "None") = "completed"
            expired == now > Get(item, "expirationTime", 0)
            late == now > Get(item, "creationTime", 0) + TwoHourWindow
        IN  /\ ~completed => ~v.is_valid /\ v.reason = ReasonNotCompleted
            /\ completed /\ Redeemed(item)
                 => ~v.is_valid /\ v.reason \in {ReasonRedeemedAt, ReasonRedeemed}
            /\ completed /\ ~Redeemed(item) /\ expired
                 => ~v.is_valid /\ v.reason = ReasonExpired
            /\ completed /\ ~Redeemed(item) /\ ~expired /\ late
                 => ~v.is_valid /\ v.reason = ReasonWindow
            /\ completed /\ ~Redeemed(item) /\ ~expired /\ ~late
                 => v.is_valid /\ v.reason = ReasonValid

\* past expirationTime, once inside and once outside the two-hour window
C9_Witness ==
    /\ DOMAIN calc.verdict # {}
    /\ calc.verdict.reason = ReasonExpired
    /\ {"expirationTime", "creationTime"} \subseteq DOMAIN calc.item
    /\ calc.current_time_utc > calc.item["expirationTime"]
    /\ calc.current_time_utc <= calc.item["creationTime"] + TwoHourWindow

C11_LateEveningExpiresDayAfterNext ==
    calc.expiration_timestamp # None =>
        /\ calc.now_utc = Timestamp(2024, 1, 10, 23, 0, 0)
             => calc.expiration_timestamp = Timestamp(2024, 1, 12, 5, 0, 0)
        /\ calc.now_utc = Timestamp(2024, 1, 10, 2, 0, 0)
             => calc.expiration_timestamp = Timestamp(2024, 1, 11, 5, 0, 0)

\* C11 (SpecCalendar), amended: both completions, and every completion on
\* 2024-01-10 (UTC), expire at 2024-01-11T05:00:00Z.
C11_SameDaySameDeadline ==
    calc.expiration_timestamp # None =>
        /\ calc.now_utc = Timestamp(2024, 1, 10, 23, 0, 0)
             => calc.expiration_timestamp = Timestamp(2024, 1, 11, 5, 0, 0)
        /\ calc.now_utc = Timestamp(2024, 1, 10, 2, 0, 0)
             => calc.expiration_timestamp = Timestamp(2024, 1, 11, 5, 0, 0)
        /\ calc.now_utc \div SecondsPerDay = DaysFromCivil(2024, 1, 10)
             => calc.expiration_timestamp = Timestamp(2024, 1, 11, 5, 0, 0)

C11_Witness ==
    /\ calc.now_utc = Timestamp(2024, 1, 10, 23, 0, 0)
    /\ calc.now_utc = 1704927600
    /\ calc.expiration_timestamp = 1704949200

\* C12 (SpecEvaluate): a completed, unredeemed record that is not past its
\* expirationTime is rejected with the two-hour-window reason at
\* creationTime + 2h + 1s and is valid at exactly creationTime + 2h.
C12_WindowIsStrict ==
    DOMAIN calc.verdict # {} =>
        LET item == calc.item
            now == calc.current_time_utc
            v == calc.verdict
            end == Get(item, "creationTime", 0) + TwoHourWindow
            open == /\ Get(item, "status", "None") = "completed"
                    /\ ~Redeemed(item)
                    /\ now <= Get(item, "expirationTime", 0)
        IN  /\ open /\ now = end + 1 => ~v.is_valid /\ v.reason = ReasonWindow
            /\ open /\ now = end => v.is_valid /\ v.reason = ReasonValid

\* one second past the window, with an expirationTime days away
C12_Witness ==
    /\ DOMAIN calc.verdict # {}
    /\ {"expirationTime", "creationTime"} \subseteq DOMAIN calc.item
    /\ calc.current_time_utc = calc.item["creationTime"] + TwoHourWindow + 1
    /\ calc.item["expirationTime"] > calc.current_time_utc + SecondsPerDay
    /\ calc.verdict.reason = ReasonWindow

\* C13 (SpecValidate): a request that finds a record with status 'pending'
\* returns valid = false with the payment-not-completed reason and actionTaken
\* 'none', whatever the clock, never reaches the redeem write, and the record
\* is never redeemed by a request.
C13_PendingNeverValid ==
    /\ IsVerdict(last) /\ last["status"] = "pending"
          => /\ last["valid"] = FALSE
             /\ last["reason"] = ReasonNotCompleted
             /\ last["actionTaken"] = "none"
    /\ \A p \in DOMAIN inv :
          inv[p].pc = "redeem" => inv[p].item["status"] # "pending"
    /\ \A d \in DOMAIN records :
          records[d]["status"] = "pending" => redemptions[d] = 0

\* a pending record, unredeemed and inside both deadlines, rejected after a tick
C13_Witness ==
    /\ IsVerdict(last) /\ last["status"] = "pending"
    /\ last["redeemed"] = FALSE
    /\ last["currentTime"] > StartOfRun
    /\ last["currentTime"] <= last["expirationTime"]
    /\ last["actionTaken"] = "none"

\* C14 (Spec): once a request has redeemed a record, no later request finds
\* that record valid and goes on to the redeem write, and a later request that
\* finds it returns valid = false with actionTaken 'none' and an
\* already-redeemed reason, leaving the records as they are.
C14_LaterRequestsRejected ==
    [][/\ \A p \in DOMAIN inv :
            inv[p].pc # "redeem" /\ inv'[p].pc = "redeem"
                => redemptions[inv'[p].item["donationId"]] = 0
       /\ IsVerdict(last') /\ last' # last /\ last'["actionTaken"] = "none"
             /\ redemptions[last'["donationId"]] >= 1
             => /\ last'["valid"] = FALSE
                /\ last'["reason"] \in {ReasonRedeemedAt, ReasonRedeemed}
                /\ records' = records]_vars

\* C15 (SpecRace): a request whose redeem write meets a record that another
\* request has redeemed since it was evaluated returns valid = false, the
\* redeemed-by-another-process reason and 'failed_redeem_concurrent', and the
\* write changes nothing: redeemed and redeemedTime stay as the winner set them.
C15_ConflictKeepsWinner ==
    [][\A p \in DOMAIN inv :
          /\ inv[p].pc = "redeem" /\ inv'[p].pc = "done"
          /\ Redeemed(records[inv[p].item["donationId"]])
          => /\ IsVerdict(last')
             /\ last'["valid"] = FALSE
             /\ last'["reason"] = ReasonConcurrent
             /\ last'["actionTaken"] = "failed_redeem_concurrent"
             /\ records' = records]_vars

\* the loser was evaluated before, and wrote after, the winner's later write
C15_Witness ==
    /\ IsVerdict(last) /\ last["actionTaken"] = "failed_redeem_concurrent"
    /\ Redeemed(records[RaceId])
    /\ records[RaceId]["redeemedTime"] > last["currentTime"]

\* C16 (Spec): a request that reached the redeem write always returns a
\* structured verdict whose actionTaken tells how the write ended: 'redeemed',
\* 'failed_redeem_concurrent', or, for any other failure of the write,
\* 'failed_redeem_general' with valid = false.
C16_WriteFailureIsGeneral ==
    [][\A p \in DOMAIN inv :
          inv[p].pc = "redeem" /\ inv'[p].pc = "done"
          => /\ IsVerdict(last')
             /\ last'["actionTaken"] \in {"redeemed", "failed_redeem_concurrent",
                                          "failed_redeem_general"}
             /\ last'["actionTaken"] = "failed_redeem_general"
                   => last'["valid"] = FALSE]_vars

\* C17 (Spec): a step of a validation request that changes the records, and any
\* step in which a request returns 'redeemed', sets redeemed = true and
\* redeemedTime on the record the request looked up and nothing else, and the
\* response carries valid, redeemed = true and that redeemedTime.  (The other
\* steps that change the records are a purchase, which adds a record, and a
\* completion, which is counted.)
C17_ValidateChangesOnlyRedeemed ==
    [][(\/ /\ records' # records
            /\ completions' = completions
            /\ DOMAIN records' = DOMAIN records
         \/ redemptions' # redemptions)
        => /\ IsVerdict(last')
           /\ last'["actionTaken"] = "redeemed"
           /\ last'["valid"] = TRUE
           /\ last'["redeemed"] = TRUE
           /\ last'["redeemedTime"] = clock
           /\ last'["donationId"] \in DOMAIN records
           /\ records' = [records EXCEPT ![last'["donationId"]] =
                            SetAttrs(@, [redeemed |-> TRUE,
                                         redeemedTime |-> last'["redeemedTime"]])]
           /\ redemptions' = [redemptions EXCEPT ![last'["donationId"]] = @ + 1]]_vars

\* one of two records redeemed, the other as the completion left it
C17_Witness ==
    /\ IsVerdict(last) /\ last["actionTaken"] = "redeemed"
    /\ Cardinality(DOMAIN records) = 2
    /\ records[last["donationId"]]["redeemedTime"] = last["redeemedTime"]
    /\ \E d \in DOMAIN records :
          /\ d # last["donationId"]
          /\ records[d]["status"] = "completed"
          /\ "redeemedTime" \notin DOMAIN records[d]

\* C18 (Spec): no step changes the donationId, checkoutSessionId, amount or
\* currency of a record or removes a record, and a completion write sets
\* status = 'completed', verificationId (the mailed code), creationTime (now),
\* expirationTime, redeemed = false and the payer's email and name on one
\* existing record and changes nothing else.
C18_CompletionKeepsFaceValue ==
    [][/\ \A d \in DOMAIN records :
            /\ d \in DOMAIN records'
            /\ \A a \in {"donationId", "checkoutSessionId", "amount", "currency"} :
                  /\ a \in DOMAIN records'[d]
                  /\ records'[d][a] = records[d][a]
       /\ completions' # completions
             => \E d \in DOMAIN records, customer_email \in Emails :
                  records' = [records EXCEPT ![d] =
                      SetAttrs(@, [status |-> "completed",
                                   verificationId |-> last'["mail"].verification_id,
                                   creationTime |-> clock,
                                   expirationTime |-> ExpirationTimestamp(clock),
                                   redeemed |-> FALSE,
                                   payerEmail |-> customer_email,
                                   payerName |-> "N/A"])]]_vars

\* a record completed twice and redeemed, with the amount it was created with
C18_Witness ==
    /\ completions = 2
    /\ \E d \in DOMAIN records :
          /\ records[d]["status"] = "completed"
          /\ "redeemedTime" \in DOMAIN records[d]
          /\ records[d]["amount"] = MinAmount
          /\ records[d]["currency"] = "eur"
          /\ records[d]["checkoutSessionId"] = d

\* C19 (Spec): a webhook invocation that changes the records is one that
\* returns 200 'success' for a completion: it changes one existing record,
\* whose session id it keeps, and creates none.  An invocation that returns 400
\* (signature) or 200 'error' (no record for the session) has changed nothing
\* and has sent no mail.
C19_WebhookWritesOnlyMatched ==
    [][IsWebhook(last')
        => /\ records' # records
                => /\ last'["statusCode"] = 200 /\ last'["status"] = "success"
                   /\ completions' = completions + 1
                   /\ DOMAIN records' = DOMAIN records
                   /\ \E d \in DOMAIN records :
                         /\ \A e \in DOMAIN records \ {d} : records'[e] = records[e]
                         /\ records'[d]["checkoutSessionId"]
                              = records[d]["checkoutSessionId"]
           /\ last'["statusCode"] = 400 \/ last'["status"] = "error"
                => ~last'["mail"].called /\ (last' # last => records' = records)]_vars

\* a completion for a session without a record, while another record exists
C19_Witness ==
    /\ IsWebhook(last)
    /\ last["statusCode"] = 200
    /\ last["message"] = "Donation record not found"
    /\ Cardinality(DOMAIN records) = 1

\* C20 (Spec): when the webhook has just called send_verification_email, the
\* completion write is in the table (a record is completed, unredeemed, and
\* carries the mailed code), the event was answered 200 'success' whether or not
\* the mail was accepted, and the ticket is valid at its creation time.
C20_MailAfterWriteNoRollback ==
    IsWebhook(last) /\ last["mail"].called
        => /\ last["statusCode"] = 200 /\ last["status"] = "success"
           /\ \E d \in DOMAIN records :
                 /\ records[d]["status"] = "completed"
                 /\ records[d]["verificationId"] = last["mail"].verification_id
                 /\ records[d]["redeemed"] = FALSE
                 /\ EvaluateTicket(records[d], records[d]["creationTime"]).is_valid

\* the mail was refused
C20_Witness ==
    /\ IsWebhook(last) /\ last["mail"].called /\ ~last["mail"].accepted
    /\ \E d \in DOMAIN records :
          /\ records[d]["status"] = "completed"
          /\ records[d]["verificationId"] = last["mail"].verification_id

\* C21 (Spec): a webhook invocation whose query or completion write failed
\* answers the payment provider with a failure status, not with a 2xx.
C21_StorageFailureSurfaced ==
    IsWebhook(last) /\ last["message"] = "Internal server error"
        => last["statusCode"] \notin 200 .. 299

\* C22 (SpecPurchase): a purchase that creates a payment session or writes a
\* pending record has an amount of at least 100 and an email; one rejected for
\* its amount or for its missing email returns an error, has created no
\* session and has written nothing.
C22_BadPurchaseRejected ==
    [][IsDonation(last')
        => /\ last'["stripe_session"].created
                => /\ last'["stripe_session"].unit_amount # None
                   /\ last'["stripe_session"].unit_amount >= 100
                   /\ last'["stripe_session"].customer_email # ""
           /\ \A d \in DOMAIN records' \ DOMAIN records :
                 /\ records'[d]["amount"] # None
                 /\ records'[d]["amount"] >= 100
                 /\ records'[d]["payerEmail"] # ""
                 /\ last'["statusCode"] = 200
           /\ last'["message"] \in
                 {"Internal server error: Invalid amount. Must be at least 1 EUR.",
                  "Internal server error: Email is required."}
                => /\ last'["statusCode"] = 500
                   /\ ~last'["stripe_session"].created
                   /\ records' = records]_vars

\* rejected for the configured price of 50, which takes the amount's place
C22_Witness ==
    /\ IsDonation(last)
    /\ last["message"] = "Internal server error: Invalid amount. Must be at least 1 EUR."
    /\ DOMAIN priceConfig # {}
    /\ priceConfig["priceInCents"] = 50
    /\ DOMAIN records # {}

\* What an evaluation read, as a response reports it and as an invocation that
\* was evaluated valid holds it.
ReportedInputs(r) ==
    [a \in {"donationId", "status", "redeemed", "creationTime", "expirationTime",
            "currentTime"} |-> r[a]]

HeldInputs(i) ==
    [donationId |-> i.item["donationId"],
     status |-> Get(i.item, "status", "None"),
     redeemed |-> Get(i.item, "redeemed", FALSE),
     creationTime |-> Get(i.item, "creationTime", 0),
     expirationTime |-> Get(i.item, "expirationTime", 0),
     currentTime |-> i.current_time_utc]

Unexpired(r) == ~r["redeemed"] /\ r["currentTime"] <= r["expirationTime"]

C24_RedeemedTimeWithinDeadlines ==
    \A d \in DOMAIN records :
        Redeemed(records[d])
            => /\ records[d]["redeemedTime"]
                    <= records[d]["creationTime"] + TwoHourWindow
               /\ records[d]["redeemedTime"] <= records[d]["expirationTime"]

\* C24 (Spec), amended: a request that redeems read the clock for its validity
\* check within the two-hour window and not past the expirationTime of the
\* record it read; the redeemedTime it writes is the clock read again before
\* the write, at or after that instant.
C24_CheckedWithinDeadlines ==
    IsVerdict(last) /\ last["actionTaken"] = "redeemed"
        => /\ last["currentTime"] <= last["creationTime"] + TwoHourWindow
           /\ last["currentTime"] <= last["expirationTime"]
           /\ last["redeemedTime"] >= last["currentTime"]

\* checked inside the window, written after it
C24_Witness ==
    /\ IsVerdict(last) /\ last["actionTaken"] = "redeemed"
    /\ last["currentTime"] <= last["creationTime"] + TwoHourWindow
    /\ last["redeemedTime"] > last["creationTime"] + TwoHourWindow

\* C25 (SpecExpiration): the expiration time of a completion is more than two
\* hours after it, so a record as the webhook completes it is valid through the
\* last second of its two-hour window and is rejected by the two-hour rule, not
\* by the expiry rule, in the next.
C25_WindowBindsFirst ==
    calc.expiration_timestamp # None =>
        LET item == [status |-> "completed", redeemed |-> FALSE,
                     creationTime |-> calc.now_utc,
                     expirationTime |-> calc.expiration_timestamp]
        IN  /\ calc.now_utc + 2 * 60 * 60 < calc.expiration_timestamp
            /\ EvaluateTicket(item, calc.now_utc + 2 * 60 * 60).is_valid
            /\ EvaluateTicket(item, calc.now_utc + 2 * 60 * 60 + 1).reason
                 = ReasonWindow

\* a completion at 23:59:59, the shortest distance to 05:00 of the next day
C25_Witness ==
    /\ calc.now_utc = SecondsPerDay - 1
    /\ calc.expiration_timestamp = calc.now_utc + 5 * 60 * 60 + 1

\* C26 (SpecPurchase): getDonationDetails reports 'succeeded' only for a record
\* whose status is 'completed'.
C26_SucceededOnlyIfCompleted ==
    IsDetails(last) /\ last["statusCode"] = 200 /\ last["status"] = "succeeded"
        => records[last["donationId"]]["status"] = "completed"

\* C27 (SpecPurchase): a pending record created while a price configuration is
\* stored has the configured priceInCents as its amount.
C27_ConfiguredPriceCharged ==
    [][DOMAIN priceConfig # {}
        => \A d \in DOMAIN records' \ DOMAIN records :
              records'[d]["amount"] = priceConfig["priceInCents"]]_vars

====
